---------------------------- MODULE Spec2Model ----------------------------
(***************************************************************************)
(* Model of the subscription / mute-state core of alertmanager-bot:        *)
(*   pkg/telegram/chat_info.go  ChatInfo and its mute / unmute methods     *)
(*   pkg/telegram/chats.go      ChatStore over a libkv key-value store     *)
(*   pkg/telegram/bot.go        Bot.Run, sendWebhook, command handlers     *)
(*                                                                         *)
(* Go slices are sequences (a nil slice and an empty slice are both <<>>:  *)
(* the code only ranges over them, takes len, appends and re-slices).      *)
(* Every kv.Get / kv.Put / kv.Delete is one atomic step; the Go code       *)
(* between two kv calls is local to its goroutine and is folded into the   *)
(* step of the kv call that follows it.                                    *)
(***************************************************************************)
EXTENDS Integers, Sequences, FiniteSets, TLC

(***************************************************************************)
(* Bounds of the model.                                                    *)
(***************************************************************************)
NumChats == 2
NumCmdChats == 1
NumHandlers == 2
NumSweeps == 2
MaxBatches == 2

Chats == 1..NumChats
Handlers == 1..NumHandlers
Sweepers == 1..NumSweeps

(***************************************************************************)
(* Bot configuration (WithEnvironments / WithProjects).                    *)
(***************************************************************************)
environments == <<"env1", "env2">>
projects == <<"pr1">>
environmentsWithoutOther == environments

environmentsAndOther == environments \o <<"other">>
projectsAndOther == projects \o <<"other">>
deletePeriod == 1

\* the clock counts up to MaxTime and then stands still while the stored
\* Unixtimes move back: ages saturate at MaxTime, above deletePeriod
MaxTime == deletePeriod + 1

(***************************************************************************)
(* Pure helpers.                                                           *)
(***************************************************************************)
Range(s) == {s[i] : i \in DOMAIN s}

Perms(S) == {f \in [1..Cardinality(S) -> S] : Range(f) = S}

contains(values, value) == \E i \in DOMAIN values : values[i] = value

arrayDifferenceKeepAll(a, b) == a

arrayDifferenceSwapped(a, b) == SelectSeq(b, LAMBDA x : ~contains(a, x))

\* elements of a not in b, in a's order
arrayDifference(a, b) == SelectSeq(a, LAMBDA x : ~contains(b, x))

getUniqueStringsNoDedup(values) == {values}

\* The keys of a Go map in iteration order: every order is a possible result.
getUniqueStrings(values) == Perms(Range(values))

(***************************************************************************)
(* truncateMessage.  A text is its length in bytes and the byte offsets     *)
(* (0-based) at which "\n\n" starts in it; the result is the kind of text   *)
(* returned, where the input was cut, and its length.                      *)
(***************************************************************************)
MaxMessageLen == 4095
SnipSearchLen == 4080
SnipMarkerLen == 14
TooLongLen == 35

Max(S) == CHOOSE x \in S : \A y \in S : y <= x

\* strings.LastIndex(str[0:n], "\n\n"): -1 when there is none
LastIndexIn(str, n) ==
  LET found == {i \in str.breaks : i + 2 <= n} IN
  IF found = {} THEN -1 ELSE Max(found)

truncateMessage(str) ==
  IF str.len > MaxMessageLen
  THEN LET i == LastIndexIn(str, SnipSearchLen) IN
       IF i > 1
       THEN [kind |-> "snip", cut |-> i, len |-> i + SnipMarkerLen]
       ELSE [kind |-> "too long", cut |-> 0, len |-> TooLongLen]
  ELSE [kind |-> "same", cut |-> str.len, len |-> str.len]

(***************************************************************************)
(* ChatInfo and its methods.  A method yields the set of its possible      *)
(* outcomes [panic, ch]: panic is a Go run-time panic (slice bounds out of *)
(* range), ch the receiver after the call.                                 *)
(***************************************************************************)
NoChat == [ID |-> 0, Title |-> ""]

NoInfo == [Chat |-> NoChat, AlertEnvironments |-> <<>>, AlertProjects |-> <<>>,
           MutedEnvironments |-> <<>>, MutedProjects |-> <<>>]

\* the loop of UnmuteEnvironment / UnmuteProject: `var index int` stays 0
\* when no element compares equal (0-based)
FirstIndexZero(values, tag) == 0

FirstIndex(values, tag) ==
  IF contains(values, tag)
  THEN (CHOOSE i \in DOMAIN values :
          values[i] = tag /\ \A j \in 1..(i - 1) : values[j] # tag) - 1
  ELSE 0

\* append(s[:index], s[index+1:]...): s[index+1:] panics when index+1 > len(s)
RemoveAtPanics(s, index) == index + 1 > Len(s)

RemoveAt(s, index) == SubSeq(s, 1, index) \o SubSeq(s, index + 2, Len(s))

UnmuteEnvironment(ch, env, allEnvs) ==
  LET index == FirstIndex(ch.MutedEnvironments, env) IN
  IF RemoveAtPanics(ch.MutedEnvironments, index)
  THEN {[panic |-> TRUE, ch |-> ch]}
  ELSE LET muted == RemoveAt(ch.MutedEnvironments, index) IN
       {[panic |-> FALSE,
         ch |-> [ch EXCEPT !.MutedEnvironments = muted,
                           !.AlertEnvironments = arrayDifference(allEnvs, muted)]]}

UnmuteProject(ch, pr, allPrs) ==
  LET index == FirstIndex(ch.MutedProjects, pr) IN
  IF RemoveAtPanics(ch.MutedProjects, index)
  THEN {[panic |-> TRUE, ch |-> ch]}
  ELSE LET muted == RemoveAt(ch.MutedProjects, index) IN
       {[panic |-> FALSE,
         ch |-> [ch EXCEPT !.MutedProjects = muted,
                           !.AlertProjects = arrayDifference(allPrs, muted)]]}

MuteEnvironmentsReplace(ch, envsToMute, allEnvs) ==
  {[panic |-> FALSE,
    ch |-> [ch EXCEPT !.MutedEnvironments = muted,
                      !.AlertEnvironments = arrayDifference(allEnvs, muted)]] :
     muted \in getUniqueStrings(envsToMute)}

MuteEnvironmentsOfUniverse(ch, envsToMute, allEnvs) ==
  {[panic |-> FALSE,
    ch |-> [ch EXCEPT !.MutedEnvironments = muted,
                      !.AlertEnvironments = arrayDifference(allEnvs, muted)]] :
     muted \in getUniqueStrings(ch.MutedEnvironments
                                  \o SelectSeq(envsToMute, LAMBDA x : contains(allEnvs, x)))}

MuteEnvironments(ch, envsToMute, allEnvs) ==
  {[panic |-> FALSE,
    ch |-> [ch EXCEPT !.MutedEnvironments = muted,
                      !.AlertEnvironments = arrayDifference(allEnvs, muted)]] :
     muted \in getUniqueStrings(ch.MutedEnvironments \o envsToMute)}

MuteProjectsClearsEnvironments(ch, prsToMute, allPrs) ==
  {[panic |-> FALSE,
    ch |-> [ch EXCEPT !.MutedProjects = muted,
                      !.AlertProjects = arrayDifference(allPrs, muted),
                      !.MutedEnvironments = <<>>]] :
     muted \in getUniqueStrings(ch.MutedProjects \o prsToMute)}

MuteProjects(ch, prsToMute, allPrs) ==
  {[panic |-> FALSE,
    ch |-> [ch EXCEPT !.MutedProjects = muted,
                      !.AlertProjects = arrayDifference(allPrs, muted)]] :
     muted \in getUniqueStrings(ch.MutedProjects \o prsToMute)}

NewChatNoAlerts(c, allEnvs, allPrs) ==
  [Chat |-> c, AlertEnvironments |-> <<>>, AlertProjects |-> <<>>,
   MutedEnvironments |-> <<>>, MutedProjects |-> <<>>]

\* the record AddChat marshals
NewChat(c, allEnvs, allPrs) ==
  [Chat |-> c, AlertEnvironments |-> allEnvs, AlertProjects |-> allPrs,
   MutedEnvironments |-> <<>>, MutedProjects |-> <<>>]

(***************************************************************************)
(* State.                                                                  *)
(***************************************************************************)
VARIABLES
  chats,     \* kv store, keys telegram/chats/<id>: present chat id -> ChatInfo
  messages,  \* kv store, key telegram/messages: [exists, list]
  handlers,  \* the goroutines telebot starts, one per incoming command
  fan,       \* the sendWebhook goroutine
  sweeps,    \* the goroutines cron starts, one per scheduler tick
  now,       \* the clock, in minutes
  sentAt,    \* Unixtime of the messages the transport has accepted: sentAt[ID]
  sendLog,   \* the Send calls for the webhook in hand: [batch, chat, alerts, ok, id]
  deleted,   \* IDs of the messages whose transport deletion was requested
  nbatch,    \* webhooks received so far
  crashed,   \* an unrecovered panic has ended the process
  replies,   \* the replies handlers have sent: [chat, admin, failed] (to an admin's
             \* message or not, a failure text or not)
  run,       \* Bot.Run: the context and the three tasks it started
  eval       \* a pure function of the package, its arguments and its result

vars == <<chats, messages, handlers, fan, sweeps, now, sentAt, sendLog,
          deleted, nbatch, crashed, replies, run, eval>>

storeVars == <<chats, messages>>
transportVars == <<sentAt, sendLog, deleted>>

(***************************************************************************)
(* The kv store (libkv): Get of an absent key fails with "Key not found    *)
(* in store".                                                              *)
(***************************************************************************)
kvHas(c) == c \in DOMAIN chats

kvPutOnly(c, info) == [k \in {c} |-> info]

kvPut(c, info) == [k \in DOMAIN chats \cup {c} |-> IF k = c THEN info ELSE chats[k]]

kvDelete(c) == [k \in DOMAIN chats \ {c} |-> chats[k]]

\* keys are paths: telegram/chats/<id> and telegram/messages
telegramChatsDirectory == <<"telegram", "chats">>
telegramMessagesDirectory == <<"telegram", "messages">>

kvKeys ==
  {telegramChatsDirectory \o <<c>> : c \in DOMAIN chats}
  \cup (IF messages.exists THEN {telegramMessagesDirectory} ELSE {})

HasPrefix(key, prefix) ==
  Len(key) >= Len(prefix) /\ SubSeq(key, 1, Len(prefix)) = prefix

kvListAll(directory) == kvKeys

\* kv.List(directory): the keys under the directory
kvList(directory) == {key \in kvKeys : HasPrefix(key, directory)}

\* ChatStore.List: the value of every key under telegram/chats, in key order
RECURSIVE ListFrom(_, _)
ListFrom(listed, k) ==
  IF k > NumChats THEN <<>>
  ELSE (IF telegramChatsDirectory \o <<k>> \in listed THEN <<chats[k]>> ELSE <<>>)
       \o ListFrom(listed, k + 1)

List ==
  LET listed == kvList(telegramChatsDirectory) IN
  ListFrom(listed, 1)
  \o (IF telegramMessagesDirectory \in listed THEN <<messages.list>> ELSE <<>>)

\* ChatStore.GetChatInfo: the record under telegram/chats/<id>, or an error
GetChatInfo(c) ==
  IF kvHas(c.ID) THEN [err |-> FALSE, info |-> chats[c.ID]]
  ELSE [err |-> TRUE, info |-> NoInfo]

\* ChatStore.MutedEnvironments / MutedProjects: a list of the record, or an error
MutedEnvironments(c) ==
  IF kvHas(c.ID) THEN [err |-> FALSE, list |-> chats[c.ID].MutedEnvironments]
  ELSE [err |-> TRUE, list |-> <<>>]

MutedProjects(c) ==
  IF kvHas(c.ID) THEN [err |-> FALSE, list |-> chats[c.ID].MutedProjects]
  ELSE [err |-> TRUE, list |-> <<>>]

\* ChatStore.GetAllMessages: an absent key reads as the empty list
GetAllMessages == IF messages.exists THEN messages.list ELSE <<>>

(***************************************************************************)
(* Command handlers.  A handler makes the ChatStore calls of its command   *)
(* one after the other (todo); a call that reads and rewrites a record is  *)
(* a Get step and a Put step.  telebot recovers a panic of a handler: the  *)
(* handler ends there.                                                     *)
(***************************************************************************)
\* at is the number of webhooks the fan-out had received when the call returned
Idle == [pc |-> "idle", chat |-> NoInfo.Chat, todo |-> <<>>,
         before |-> NoInfo, after |-> NoInfo, res |-> "none", at |-> 0,
         admin |-> FALSE, service |-> FALSE]

Call(op, arg) == [op |-> op, arg |-> arg]

RECURSIVE EachCall(_, _)
EachCall(op, tags) ==
  IF tags = <<>> THEN <<>>
  ELSE <<Call(op, <<Head(tags)>>)>> \o EachCall(op, Tail(tags))

\* the ChatStore calls of handleStart, handleStop, handleMute, handleMuteDel
CallsOf(cmd) ==
  CASE cmd.kind = "start" -> <<Call("AddChat", <<>>)>>
    [] cmd.kind = "stop" -> <<Call("RemoveChat", <<>>)>>
    [] cmd.kind = "mute" ->
         (IF Len(cmd.envs) > 0 THEN <<Call("MuteEnvironments", cmd.envs)>> ELSE <<>>)
         \o (IF Len(cmd.prs) > 0 THEN <<Call("MuteProjects", cmd.prs)>> ELSE <<>>)
    [] cmd.kind = "mute_del" ->
         EachCall("UnmuteEnvironment", cmd.envs) \o EachCall("UnmuteProject", cmd.prs)

ReadsRecord(op) ==
  op \in {"MuteEnvironments", "MuteProjects", "UnmuteEnvironment", "UnmuteProject"}

\* the ChatInfo method a ChatStore call applies to the record it read
Apply(call, ch) ==
  CASE call.op = "MuteEnvironments" -> MuteEnvironments(ch, call.arg, environmentsAndOther)
    [] call.op = "MuteProjects" -> MuteProjects(ch, call.arg, projectsAndOther)
    [] call.op = "UnmuteEnvironment" -> UnmuteEnvironment(ch, call.arg[1], environmentsAndOther)
    [] call.op = "UnmuteProject" -> UnmuteProject(ch, call.arg[1], projectsAndOther)

\* checkMessage returns nil: a service message passes, any other message
\* passes when its sender is an admin and the typing notification went out
checkMessage(message, notifyOK) ==
  IF message.service THEN TRUE
  ELSE IF ~message.admin THEN FALSE
  ELSE notifyOK

\* the initial state of Bot.Run: the context is live, sendWebhook loops, cron
\* and the telebot poller have been started
Running == [ctx |-> "live", sendWebhook |-> "running", cron |-> "running",
            telebot |-> "running"]

\* parseMuteCommand / parseUnmuteCommand return an error: the text of a
\* /mute or /mute_del message matches none of the patterns (such a message
\* carries no tag list)
ParseFails(cmd) ==
  cmd.kind \in {"mute", "mute_del"} /\ cmd.envs = <<>> /\ cmd.prs = <<>>

Reply(self, failed) == [chat |-> self.chat.ID, admin |-> self.admin, failed |-> failed]

\* a command arrives and telebot starts its handler; a message checkMessage
\* turns down is logged and the handler returns
HandlerReceive(h, cmd) ==
  /\ ~crashed
  /\ run.telebot = "running"
  /\ handlers[h].pc = "idle"
  /\ \E notifyOK \in BOOLEAN : checkMessage(cmd, notifyOK)
  /\ handlers' = [handlers EXCEPT ![h] =
                    [Idle EXCEPT !.pc = IF ParseFails(cmd) THEN "noparse" ELSE "call",
                                 !.chat = cmd.chat, !.todo = CallsOf(cmd),
                                 !.admin = cmd.admin, !.service = cmd.service]]
  /\ UNCHANGED <<storeVars, fan, sweeps, now, transportVars, nbatch, crashed, replies, run, eval>>

AddChatKeepExisting(h) ==
  LET self == handlers[h] IN
  /\ ~crashed
  /\ self.pc = "call"
  /\ Head(self.todo).op = "AddChat"
  /\ LET info == IF kvHas(self.chat.ID) THEN chats[self.chat.ID]
                 ELSE NewChat(self.chat, environmentsAndOther, projectsAndOther) IN
     /\ chats' = kvPut(self.chat.ID, info)
     /\ handlers' = [handlers EXCEPT ![h] =
                       [self EXCEPT !.pc = "ret", !.res = "ok", !.after = info, !.at = nbatch,
                                    !.before = IF kvHas(self.chat.ID)
                                               THEN chats[self.chat.ID] ELSE NoInfo]]
  /\ UNCHANGED <<messages, fan, sweeps, now, transportVars, nbatch, crashed, replies, run, eval>>

\* ChatStore.AddChat: one Put of a fresh record
AddChat(h) ==
  LET self == handlers[h] IN
  /\ ~crashed
  /\ self.pc = "call"
  /\ Head(self.todo).op = "AddChat"
  /\ LET info == NewChat(self.chat, environmentsAndOther, projectsAndOther) IN
     /\ chats' = kvPut(self.chat.ID, info)
     /\ handlers' = [handlers EXCEPT ![h] =
                       [self EXCEPT !.pc = "ret", !.res = "ok", !.after = info, !.at = nbatch,
                                    !.before = IF kvHas(self.chat.ID)
                                               THEN chats[self.chat.ID] ELSE NoInfo]]
  /\ UNCHANGED <<messages, fan, sweeps, now, transportVars, nbatch, crashed, replies, run, eval>>

RemoveChatDropsMessages(h) ==
  LET self == handlers[h] IN
  /\ ~crashed
  /\ self.pc = "call"
  /\ Head(self.todo).op = "RemoveChat"
  /\ chats' = kvDelete(self.chat.ID)
  /\ messages' = [exists |-> FALSE, list |-> <<>>]
  /\ handlers' = [handlers EXCEPT ![h] = [self EXCEPT !.pc = "ret", !.res = "ok", !.at = nbatch]]
  /\ UNCHANGED <<fan, sweeps, now, transportVars, nbatch, crashed, replies, run, eval>>

\* ChatStore.RemoveChat: one Delete
RemoveChat(h) ==
  LET self == handlers[h] IN
  /\ ~crashed
  /\ self.pc = "call"
  /\ Head(self.todo).op = "RemoveChat"
  /\ chats' = kvDelete(self.chat.ID)
  /\ handlers' = [handlers EXCEPT ![h] = [self EXCEPT !.pc = "ret", !.res = "ok", !.at = nbatch]]
  /\ UNCHANGED <<messages, fan, sweeps, now, transportVars, nbatch, crashed, replies, run, eval>>

StoreGetAbsentAsEmpty(h) ==
  LET self == handlers[h] IN
  /\ ~crashed
  /\ self.pc = "call"
  /\ ReadsRecord(Head(self.todo).op)
  /\ handlers' = [handlers EXCEPT ![h] =
       [self EXCEPT !.pc = "put", !.after = NoInfo,
                    !.before = IF kvHas(self.chat.ID) THEN chats[self.chat.ID]
                               ELSE [NoInfo EXCEPT !.Chat = self.chat]]]
  /\ UNCHANGED <<storeVars, fan, sweeps, now, transportVars, nbatch, crashed, replies, run, eval>>

\* the kv.Get of MuteEnvironments, MuteProjects, UnmuteEnvironment, UnmuteProject
StoreGet(h) ==
  LET self == handlers[h] IN
  /\ ~crashed
  /\ self.pc = "call"
  /\ ReadsRecord(Head(self.todo).op)
  /\ handlers' = [handlers EXCEPT ![h] =
       IF kvHas(self.chat.ID)
       THEN [self EXCEPT !.pc = "put", !.before = chats[self.chat.ID], !.after = NoInfo]
       ELSE [self EXCEPT !.pc = "ret", !.res = "err", !.before = NoInfo, !.after = NoInfo,
                         !.at = nbatch]]
  /\ UNCHANGED <<storeVars, fan, sweeps, now, transportVars, nbatch, crashed, replies, run, eval>>

\* the ChatInfo method on the record read, then the kv.Put of the result
StorePut(h) ==
  LET self == handlers[h] IN
  /\ ~crashed
  /\ self.pc = "put"
  /\ \E out \in Apply(Head(self.todo), self.before) :
       IF out.panic
       THEN /\ handlers' = [handlers EXCEPT ![h] = [self EXCEPT !.pc = "ret", !.res = "panic", !.at = nbatch]]
            /\ UNCHANGED chats
       ELSE /\ chats' = kvPut(self.chat.ID, out.ch)
            /\ handlers' = [handlers EXCEPT ![h] =
                              [self EXCEPT !.pc = "ret", !.res = "ok", !.after = out.ch, !.at = nbatch]]
  /\ UNCHANGED <<messages, fan, sweeps, now, transportVars, nbatch, crashed, replies, run, eval>>

\* the call has returned: the handler replies to message.Chat when the call
\* failed and when it was the last one, and goes on to its next call, or ends
HandlerReturn(h) ==
  LET self == handlers[h] IN
  /\ ~crashed
  /\ self.pc = "ret"
  /\ handlers' = [handlers EXCEPT ![h] =
       IF self.res = "panic" \/ Len(self.todo) = 1
       THEN Idle
       ELSE [Idle EXCEPT !.pc = "call", !.chat = self.chat, !.todo = Tail(self.todo),
                         !.admin = self.admin, !.service = self.service]]
  /\ replies' = replies
                  \cup (IF self.res = "err" THEN {Reply(self, TRUE)} ELSE {})
                  \cup (IF self.res # "panic" /\ Len(self.todo) = 1
                        THEN {Reply(self, FALSE)} ELSE {})
  /\ UNCHANGED <<storeVars, fan, sweeps, now, transportVars, nbatch, crashed, run, eval>>

HandlerParseErrorSilent(h) ==
  /\ ~crashed
  /\ handlers[h].pc = "noparse"
  /\ handlers' = [handlers EXCEPT ![h] = Idle]
  /\ UNCHANGED <<storeVars, fan, sweeps, now, transportVars, nbatch, crashed, replies, run,
                 eval>>

\* the parse error of handleMute / handleMuteDel: the handler replies that it
\* failed to parse the command and returns
HandlerParseError(h) ==
  /\ ~crashed
  /\ handlers[h].pc = "noparse"
  /\ replies' = replies \cup {Reply(handlers[h], TRUE)}
  /\ handlers' = [handlers EXCEPT ![h] = Idle]
  /\ UNCHANGED <<storeVars, fan, sweeps, now, transportVars, nbatch, crashed, run, eval>>

(***************************************************************************)
(* sendWebhook: the fan-out loop.                                          *)
(***************************************************************************)
Nil == [ID |-> 0, Chat |-> 0]

\* lists counts the b.chats.List() calls made for the webhook in hand
FanIdle == [pc |-> "recv", batch |-> <<>>, i |-> 0, ram |-> <<>>,
            msg |-> Nil, local |-> <<>>, err |-> FALSE, lists |-> 0]

ResolveKeepLabel(configured, label) == label

\* a label outside the configured values, or missing (""), counts as "other"
Resolve(configured, label) == IF contains(configured, label) THEN label ELSE "other"

EligibleAny(info, alert) ==
  \/ contains(info.AlertEnvironments, Resolve(environments, alert.environment))
  \/ contains(info.AlertProjects, Resolve(projects, alert.project))

\* the condition of the accumulation in sendWebhook
Eligible(info, alert) ==
  /\ contains(info.AlertEnvironments, Resolve(environments, alert.environment))
  /\ contains(info.AlertProjects, Resolve(projects, alert.project))

\* receiversAndMessages after the loop over chatInfos for one alert: the
\* alert is put in front of what the chat has accumulated
Accumulate(ram, chatInfos, alert) ==
  LET keys == {chatInfos[j].Chat : j \in {j \in DOMAIN chatInfos : Eligible(chatInfos[j], alert)}} IN
  [k \in DOMAIN ram \cup keys |->
     IF k \in keys
     THEN <<alert>> \o (IF k \in DOMAIN ram THEN ram[k] ELSE <<>>)
     ELSE ram[k]]

\* where the loop goes after one receiver: the next one, or the next webhook
AfterReceiver(f) ==
  IF DOMAIN f.ram = {}
  THEN [FanIdle EXCEPT !.err = f.err]
  ELSE [f EXCEPT !.pc = "send", !.msg = Nil, !.local = <<>>]

FanoutReceiveCarriesOver(w) ==
  /\ ~crashed
  /\ run.sendWebhook = "running"
  /\ fan.pc = "recv"
  /\ nbatch < MaxBatches
  /\ w # <<>>
  /\ nbatch' = nbatch + 1
  /\ fan' = [FanIdle EXCEPT !.pc = "alert", !.batch = w, !.i = 1,
                            !.ram = [k \in {chats[sendLog[i].chat].Chat : i \in DOMAIN sendLog} |->
                                       sendLog[CHOOSE i \in DOMAIN sendLog :
                                                 sendLog[i].chat = k.ID].alerts]]
  /\ sendLog' = <<>>
  /\ UNCHANGED <<storeVars, handlers, sweeps, now, sentAt, deleted, crashed, replies, run, eval>>

\* case w := <-webhooks
FanoutReceive(w) ==
  /\ ~crashed
  /\ run.sendWebhook = "running"
  /\ fan.pc = "recv"
  /\ nbatch < MaxBatches
  /\ w # <<>>
  /\ nbatch' = nbatch + 1
  /\ fan' = [FanIdle EXCEPT !.pc = "alert", !.batch = w, !.i = 1]
  /\ sendLog' = <<>>
  /\ UNCHANGED <<storeVars, handlers, sweeps, now, sentAt, deleted, crashed, replies, run, eval>>

\* case <-ctx.Done(): sendWebhook returns
FanoutDone ==
  /\ ~crashed
  /\ run.sendWebhook = "running"
  /\ fan.pc = "recv"
  /\ run.ctx = "done"
  /\ run' = [run EXCEPT !.sendWebhook = "returned"]
  /\ UNCHANGED <<storeVars, handlers, fan, sweeps, now, transportVars, nbatch, crashed,
                 replies, eval>>

\* one round of the loop over w.Alerts: b.chats.List() and the loop over chatInfos
FanoutAlert(listOK) ==
  /\ ~crashed
  /\ fan.pc = "alert"
  /\ LET alert == fan.batch[fan.i]
         ram == IF listOK THEN Accumulate(fan.ram, List, alert) ELSE fan.ram
         next == [fan EXCEPT !.ram = ram, !.i = fan.i + 1, !.err = ~listOK,
                             !.lists = fan.lists + 1] IN
     fan' = IF fan.i < Len(fan.batch)
            THEN next
            ELSE AfterReceiver(next)
  /\ UNCHANGED <<storeVars, handlers, sweeps, now, transportVars, nbatch, crashed, replies, run, eval>>

\* one round of the loop over receiversAndMessages, up to b.telegram.Send:
\* Send returns (nil, err) when it fails
FanoutSend(sendOK) ==
  /\ ~crashed
  /\ fan.pc = "send"
  /\ \E k \in DOMAIN fan.ram :
       LET id == IF sendOK THEN Len(sentAt) + 1 ELSE 0 IN
       /\ sendLog' = Append(sendLog, [batch |-> nbatch, chat |-> k.ID,
                                      alerts |-> fan.ram[k], ok |-> sendOK, id |-> id])
       /\ sentAt' = IF sendOK THEN Append(sentAt, now) ELSE sentAt
       /\ fan' = [fan EXCEPT !.pc = "add",
                             !.ram = [j \in DOMAIN fan.ram \ {k} |-> fan.ram[j]],
                             !.msg = IF sendOK THEN [ID |-> id, Chat |-> k.ID] ELSE Nil]
  /\ UNCHANGED <<storeVars, handlers, sweeps, now, deleted, nbatch, crashed, replies, run, eval>>

\* b.chats.AddMessage(msg), up to its *m: GetAllMessages, then the dereference
\* of m, which panics on nil; nothing recovers a panic of this goroutine
FanoutAddMessageGet(getOK) ==
  /\ ~crashed
  /\ fan.pc = "add"
  /\ IF ~getOK
     THEN /\ fan' = AfterReceiver([fan EXCEPT !.err = TRUE])
          /\ UNCHANGED crashed
     ELSE IF fan.msg = Nil
          THEN /\ crashed' = TRUE
               /\ UNCHANGED fan
          ELSE /\ fan' = [fan EXCEPT !.pc = "put", !.local = GetAllMessages, !.err = FALSE]
               /\ UNCHANGED crashed
  /\ UNCHANGED <<storeVars, handlers, sweeps, now, transportVars, nbatch, replies, run, eval>>

FanoutAddMessagePutReplaces(putOK) ==
  /\ ~crashed
  /\ fan.pc = "put"
  /\ messages' = IF putOK
                 THEN [exists |-> TRUE, list |-> <<fan.msg>>]
                 ELSE messages
  /\ fan' = AfterReceiver([fan EXCEPT !.err = ~putOK])
  /\ UNCHANGED <<chats, handlers, sweeps, now, transportVars, nbatch, crashed, replies, run, eval>>

\* the rest of AddMessage: append and kv.Put of the whole list
FanoutAddMessagePut(putOK) ==
  /\ ~crashed
  /\ fan.pc = "put"
  /\ messages' = IF putOK
                 THEN [exists |-> TRUE, list |-> Append(fan.local, fan.msg)]
                 ELSE messages
  /\ fan' = AfterReceiver([fan EXCEPT !.err = ~putOK])
  /\ UNCHANGED <<chats, handlers, sweeps, now, transportVars, nbatch, crashed, replies, run, eval>>

\* ChatStore.DeleteAllMessages: one Delete of the key telegram/messages
DeleteAllMessages ==
  /\ ~crashed
  /\ messages' = [exists |-> FALSE, list |-> <<>>]
  /\ UNCHANGED <<chats, handlers, fan, sweeps, now, transportVars, nbatch, crashed,
                 replies, run, eval>>

(***************************************************************************)
(* The scheduler: cron runs the job of Bot.Run in a goroutine per tick.    *)
(***************************************************************************)
\* err: the last job of this goroutine logged a store error and returned
SweepIdle == [pc |-> "idle", read |-> <<>>, ret |-> <<>>, todo |-> <<>>, err |-> FALSE]

\* timeDiff.Minutes() of a stored message
Minutes(msg, currentTime) == currentTime - sentAt[msg.ID]

messagesToDeleteStrict(msgs, currentTime, minutes) ==
  SelectSeq(msgs, LAMBDA m : Minutes(m, currentTime) > minutes)

messagesToDelete(msgs, currentTime, minutes) ==
  SelectSeq(msgs, LAMBDA m : Minutes(m, currentTime) >= minutes)

messagesToSave(msgs, currentTime, minutes) ==
  SelectSeq(msgs, LAMBDA m : ~(Minutes(m, currentTime) >= minutes))

\* a tick: GetMessagesForPeriodInMinutes up to GetAllMessages; on an error the
\* job logs it and ranges over no message
SweepGet(s, getOK) ==
  /\ ~crashed
  /\ run.cron = "running"
  /\ sweeps[s].pc = "idle"
  /\ sweeps' = [sweeps EXCEPT ![s] =
                  IF getOK THEN [SweepIdle EXCEPT !.pc = "put", !.read = GetAllMessages]
                  ELSE [SweepIdle EXCEPT !.err = TRUE]]
  /\ UNCHANGED <<storeVars, handlers, fan, now, transportVars, nbatch, crashed, replies, run, eval>>

SweepPutFailureDeletes(s, putOK) ==
  LET self == sweeps[s] IN
  /\ ~crashed
  /\ self.pc = "put"
  /\ messages' = IF putOK
                 THEN [exists |-> TRUE, list |-> messagesToSave(self.read, now, deletePeriod)]
                 ELSE messages
  /\ sweeps' = [sweeps EXCEPT ![s] =
                  [self EXCEPT !.pc = "delete", !.err = ~putOK,
                               !.ret = messagesToDelete(self.read, now, deletePeriod),
                               !.todo = messagesToDelete(self.read, now, deletePeriod)]]
  /\ UNCHANGED <<chats, handlers, fan, now, transportVars, nbatch, crashed, replies, run, eval>>

\* time.Now(), the partition of the list read, and the kv.Put of messagesToSave
SweepPut(s, putOK) ==
  LET self == sweeps[s] IN
  /\ ~crashed
  /\ self.pc = "put"
  /\ IF putOK
     THEN /\ messages' = [exists |-> TRUE,
                          list |-> messagesToSave(self.read, now, deletePeriod)]
          /\ sweeps' = [sweeps EXCEPT ![s] =
                          [self EXCEPT !.pc = "delete",
                                       !.ret = messagesToDelete(self.read, now, deletePeriod),
                                       !.todo = messagesToDelete(self.read, now, deletePeriod)]]
     ELSE /\ sweeps' = [sweeps EXCEPT ![s] = [SweepIdle EXCEPT !.err = TRUE]]
          /\ UNCHANGED messages
  /\ UNCHANGED <<chats, handlers, fan, now, transportVars, nbatch, crashed, replies, run, eval>>

SweepDeleteStopsOnFailure(s, deleteOK) ==
  LET self == sweeps[s] IN
  /\ ~crashed
  /\ self.pc = "delete"
  /\ self.todo # <<>>
  /\ deleted' = deleted \cup {Head(self.todo).ID}
  /\ sweeps' = [sweeps EXCEPT ![s] =
                  [self EXCEPT !.todo = IF deleteOK THEN Tail(self.todo) ELSE <<>>]]
  /\ UNCHANGED <<storeVars, handlers, fan, now, sentAt, sendLog, nbatch, crashed, replies, run, eval>>

\* one round of the job's loop: b.telegram.Delete(&msg), its error only logged
SweepDelete(s, deleteOK) ==
  LET self == sweeps[s] IN
  /\ ~crashed
  /\ self.pc = "delete"
  /\ self.todo # <<>>
  /\ deleted' = deleted \cup {Head(self.todo).ID}
  /\ sweeps' = [sweeps EXCEPT ![s] = [self EXCEPT !.todo = Tail(self.todo)]]
  /\ UNCHANGED <<storeVars, handlers, fan, now, sentAt, sendLog, nbatch, crashed, replies, run, eval>>

\* the job returns
SweepReturn(s) ==
  /\ ~crashed
  /\ sweeps[s].pc = "delete"
  /\ sweeps[s].todo = <<>>
  /\ sweeps' = [sweeps EXCEPT ![s] = SweepIdle]
  /\ UNCHANGED <<storeVars, handlers, fan, now, transportVars, nbatch, crashed, replies, run, eval>>

\* the caller of Bot.Run cancels the context
Cancel ==
  /\ ~crashed
  /\ run.ctx = "live"
  /\ run' = [run EXCEPT !.ctx = "done"]
  /\ UNCHANGED <<storeVars, handlers, fan, sweeps, now, transportVars, nbatch, crashed,
                 replies, eval>>

\* a minute passes
ClockTick ==
  /\ ~crashed
  /\ IF now < MaxTime
     THEN /\ now' = now + 1
          /\ UNCHANGED sentAt
     ELSE /\ sentAt' = [id \in DOMAIN sentAt |-> IF sentAt[id] > 0 THEN sentAt[id] - 1 ELSE 0]
          /\ UNCHANGED now
  /\ UNCHANGED <<storeVars, handlers, fan, sweeps, sendLog, deleted, nbatch, crashed, replies, run, eval>>

(***************************************************************************)
(* Pure functions, applied to an argument in hand.                         *)
(***************************************************************************)
NoEval == [fn |-> "none", args |-> <<>>, out |-> <<>>, done |-> FALSE]

ApplyArrayDifference ==
  /\ eval.fn = "arrayDifference"
  /\ ~eval.done
  /\ eval' = [eval EXCEPT !.out = arrayDifference(eval.args[1], eval.args[2]),
                          !.done = TRUE]
  /\ UNCHANGED <<storeVars, handlers, fan, sweeps, now, transportVars, nbatch, crashed,
                 replies, run>>

ApplyTruncateMessage ==
  /\ eval.fn = "truncateMessage"
  /\ ~eval.done
  /\ eval' = [eval EXCEPT !.out = truncateMessage(eval.args), !.done = TRUE]
  /\ UNCHANGED <<storeVars, handlers, fan, sweeps, now, transportVars, nbatch, crashed,
                 replies, run>>

(***************************************************************************)
(* Inputs: the commands and webhooks that arrive.                          *)
(***************************************************************************)
ChatValues(ids) == {[ID |-> c, Title |-> "t"] : c \in ids}

\* messages of an admin, not service messages
CommandsOf(ids, envLists, prLists) ==
  [kind : {"start", "stop"}, chat : ChatValues(ids), envs : {<<>>}, prs : {<<>>},
   admin : {TRUE}, service : {FALSE}]
  \cup [kind : {"mute", "mute_del"}, chat : ChatValues(ids),
        envs : envLists \cup {<<>>}, prs : prLists \cup {<<>>},
        admin : {TRUE}, service : {FALSE}]

\* the commands of the sequential runs
EnvLists == {<<"env1">>, <<"env2">>, <<"other">>, <<"env1", "env2">>, <<"env1", "env1">>}
PrLists == {<<"pr1">>, <<"other">>}
Commands == CommandsOf(1..NumCmdChats, EnvLists, PrLists)

\* the commands of the runs with overlapping handlers
RaceEnvLists == {<<"env1">>, <<"env2">>}
RacePrLists == {<<"pr1">>}
RaceCommands == CommandsOf(1..NumCmdChats, RaceEnvLists, RacePrLists)

\* the commands of the runs with handlers and fan-out: /stop and /mute only
MuteCommands ==
  [kind : {"stop"}, chat : ChatValues(1..NumCmdChats), envs : {<<>>}, prs : {<<>>},
   admin : {TRUE}, service : {FALSE}]
  \cup [kind : {"mute"}, chat : ChatValues(1..NumCmdChats),
        envs : {<<"env1">>, <<"env2">>}, prs : {<<>>}, admin : {TRUE}, service : {FALSE}]
  \cup [kind : {"mute"}, chat : ChatValues(1..NumCmdChats),
        envs : {<<>>}, prs : {<<"pr1">>}, admin : {TRUE}, service : {FALSE}]

\* the commands of the runs with one handler per chat: handler h works on chat h
PairCommands(h) == CommandsOf({h}, {<<"env1">>}, {<<"pr1">>})

\* the commands of the runs with any sender: of an admin or not, service
\* message or not
SenderCommands ==
  [kind : {"start", "stop"}, chat : ChatValues(1..NumCmdChats), envs : {<<>>}, prs : {<<>>},
   admin : BOOLEAN, service : BOOLEAN]
  \cup [kind : {"mute", "mute_del"}, chat : ChatValues(1..NumCmdChats),
        envs : {<<>>, <<"env1">>}, prs : {<<>>, <<"pr1">>}, admin : BOOLEAN, service : BOOLEAN]

Alerts == [name : {"a"}, environment : {"env1", "envX"}, project : {"pr1", ""}]

Webhooks == {<<a>> : a \in Alerts} \cup {<<a, b>> : a, b \in Alerts}

\* the webhooks of the runs with the scheduler
SweepWebhooks == {<<[name |-> "a", environment |-> "env1", project |-> "pr1"]>>}

\* the commands of the runs with a chat that was renamed: /start arrives with
\* the chat under its old or its new title, /mute with the new one
RenameCommands ==
  [kind : {"start"}, chat : {[ID |-> 1, Title |-> "t"], [ID |-> 1, Title |-> "renamed"]},
   envs : {<<>>}, prs : {<<>>}, admin : {TRUE}, service : {FALSE}]
  \cup [kind : {"mute"}, chat : {[ID |-> 1, Title |-> "renamed"]},
        envs : {<<"env2">>}, prs : {<<>>}, admin : {TRUE}, service : {FALSE}]

\* webhooks of one and of two alerts
RepeatWebhooks ==
  LET a == [name |-> "a", environment |-> "env1", project |-> "pr1"]
      b == [name |-> "a", environment |-> "envX", project |-> "pr1"] IN
  {<<a>>, <<a, a>>, <<a, b>>}

\* the commands of the runs with a webhook of several alerts: /mute and
\* /mute_del of one environment
BatchCommands ==
  [kind : {"mute", "mute_del"}, chat : ChatValues(1..NumCmdChats),
   envs : {<<"env1">>}, prs : {<<>>}, admin : {TRUE}, service : {FALSE}]

\* the commands of the runs with subscriptions only: /start of any chat
StartCommands ==
  [kind : {"start"}, chat : ChatValues(Chats), envs : {<<>>}, prs : {<<>>},
   admin : {TRUE}, service : {FALSE}]

\* the commands of the runs with handler, fan-out and scheduler
FrameCommands == CommandsOf(1..NumCmdChats, {<<"env1">>}, {})

\* the commands of the runs with tags no universe holds ("envX", "prX")
OutsideCommands == CommandsOf(1..NumCmdChats, {<<"envX">>, <<"env1">>}, {<<"prX">>})

\* the commands of the runs that list the store: of any chat
ListCommands ==
  [kind : {"start", "stop"}, chat : ChatValues(Chats), envs : {<<>>}, prs : {<<>>},
   admin : {TRUE}, service : {FALSE}]
  \cup [kind : {"mute"}, chat : ChatValues(Chats), envs : {<<"env1">>}, prs : {<<>>},
        admin : {TRUE}, service : {FALSE}]

\* the lists arrayDifference is applied to: up to MaxLen tags, repeats allowed
MaxLen == 3
TagLists == UNION {[1..n -> {"env1", "env2", "other"}] : n \in 0..MaxLen}

DifferenceInputs ==
  {[fn |-> "arrayDifference", args |-> <<a, b>>, out |-> <<>>, done |-> FALSE] :
     a \in TagLists, b \in TagLists}

\* the texts truncateMessage is applied to: lengths and "\n\n" offsets around
\* the limits of the code
TextLens == {0, 1, MaxMessageLen - 1, MaxMessageLen, MaxMessageLen + 1, 5000}
BreakOffsets == {0, 1, 2, 100, SnipSearchLen - 3, SnipSearchLen - 2, SnipSearchLen - 1,
                 MaxMessageLen - 5}
Texts == {t \in [len : TextLens, breaks : SUBSET BreakOffsets] :
            \A i \in t.breaks : i + 2 <= t.len}

TruncateInputs ==
  {[fn |-> "truncateMessage", args |-> t, out |-> <<>>, done |-> FALSE] : t \in Texts}

\* the records a chat can have in the store when the bot starts: what /start
\* and one /mute left there in an earlier run
StoredEnvMutes == {<<>>, <<"env1">>, <<"other">>}
StoredPrMutes == {<<>>, <<"pr1">>, <<"other">>}

StoredInfos(c) ==
  LET new == NewChat([ID |-> c, Title |-> "t"], environmentsAndOther, projectsAndOther) IN
  {o2.ch : o2 \in UNION {MuteProjects(o1.ch, p, projectsAndOther) :
                           o1 \in UNION {MuteEnvironments(new, e, environmentsAndOther) :
                                           e \in StoredEnvMutes},
                           p \in StoredPrMutes}}

Stores == UNION {{st \in [ids -> UNION {StoredInfos(c) : c \in ids}] :
                    \A c \in ids : st[c] \in StoredInfos(c)} : ids \in SUBSET Chats}

(***************************************************************************)
(* Specifications.                                                         *)
(***************************************************************************)
Init ==
  /\ chats = <<>>
  /\ messages = [exists |-> FALSE, list |-> <<>>]
  /\ handlers = [h \in Handlers |-> Idle]
  /\ fan = FanIdle
  /\ sweeps = [s \in Sweepers |-> SweepIdle]
  /\ now = 0
  /\ sentAt = <<>>
  /\ sendLog = <<>>
  /\ deleted = {}
  /\ nbatch = 0
  /\ crashed = FALSE
  /\ replies = {}
  /\ run = Running
  /\ eval = NoEval

HandlerNext(hs, cmds) ==
  \E h \in hs :
    \/ \E cmd \in cmds : HandlerReceive(h, cmd)
    \/ AddChat(h)
    \/ RemoveChat(h)
    \/ StoreGet(h)
    \/ StorePut(h)
    \/ HandlerReturn(h)
    \/ HandlerParseError(h)

FanoutNext(webhooks) ==
  \/ \E w \in webhooks : FanoutReceive(w)
  \/ \E ok \in BOOLEAN : FanoutAlert(ok)
  \/ \E ok \in BOOLEAN : FanoutSend(ok)
  \/ \E ok \in BOOLEAN : FanoutAddMessageGet(ok)
  \/ \E ok \in BOOLEAN : FanoutAddMessagePut(ok)

SweepNext ==
  \E s \in Sweepers :
    \/ \E ok \in BOOLEAN : SweepGet(s, ok)
    \/ \E ok \in BOOLEAN : SweepPut(s, ok)
    \/ \E ok \in BOOLEAN : SweepDelete(s, ok)
    \/ SweepReturn(s)

Next ==
  \/ HandlerNext(Handlers, Commands \cup SenderCommands)
  \/ FanoutNext(Webhooks)
  \/ FanoutDone
  \/ SweepNext
  \/ ClockTick
  \/ Cancel

\* every goroutine of Bot.Run
Spec == Init /\ [][Next]_vars

\* the command handlers, one command at a time
SeqNext == HandlerNext({1}, Commands)

SeqSpec == Init /\ [][SeqNext]_vars

\* the command handlers, overlapping
RaceNext == HandlerNext(Handlers, RaceCommands)

RaceSpec == Init /\ [][RaceNext]_vars


\* the bot starts on the store an earlier run left
InitStored(stores) ==
  /\ chats \in stores
  /\ messages = [exists |-> FALSE, list |-> <<>>]
  /\ handlers = [h \in Handlers |-> Idle]
  /\ fan = FanIdle
  /\ sweeps = [s \in Sweepers |-> SweepIdle]
  /\ now = 0
  /\ sentAt = <<>>
  /\ sendLog = <<>>
  /\ deleted = {}
  /\ nbatch = 0
  /\ crashed = FALSE
  /\ replies = {}
  /\ run = Running
  /\ eval = NoEval

\* the fan-out alone, on every stored state
FanoutSpec == InitStored(Stores) /\ [][FanoutNext(Webhooks)]_vars

\* the fan-out, the scheduler and the clock, chat 1 subscribed
SweepStores == {st \in Stores : DOMAIN st = {1} /\ st[1].MutedEnvironments = <<>>
                                /\ st[1].MutedProjects = <<>>}

SweepSpecNext == FanoutNext(SweepWebhooks) \/ SweepNext \/ ClockTick

SweepSpec == InitStored(SweepStores) /\ [][SweepSpecNext]_vars

\* the same with no transport or store failure in the fan-out and the sweep,
\* every goroutine and the clock scheduled fairly
LiveNext ==
  \/ \E w \in SweepWebhooks : FanoutReceive(w)
  \/ FanoutAlert(TRUE)
  \/ FanoutSend(TRUE)
  \/ FanoutAddMessageGet(TRUE)
  \/ FanoutAddMessagePut(TRUE)
  \/ \E s \in Sweepers : SweepGet(s, TRUE)
  \/ \E s \in Sweepers : SweepPut(s, TRUE)
  \/ \E s \in Sweepers : \E ok \in BOOLEAN : SweepDelete(s, ok)
  \/ \E s \in Sweepers : SweepReturn(s)
  \/ ClockTick

LiveSpec ==
  /\ InitStored(SweepStores)
  /\ [][LiveNext]_vars
  /\ WF_vars(FanoutAlert(TRUE))
  /\ WF_vars(FanoutSend(TRUE))
  /\ WF_vars(FanoutAddMessageGet(TRUE))
  /\ WF_vars(FanoutAddMessagePut(TRUE))
  /\ WF_vars(\E s \in Sweepers : SweepGet(s, TRUE))
  /\ WF_vars(\E s \in Sweepers : SweepPut(s, TRUE))
  /\ WF_vars(\E s \in Sweepers : \E ok \in BOOLEAN : SweepDelete(s, ok))
  /\ WF_vars(\E s \in Sweepers : SweepReturn(s))
  /\ WF_vars(ClockTick)

\* overlapping /mute and /stop handlers and the fan-out, chat 1 subscribed;
\* no /start and no /mute_del arrives
MuteNext ==
  \/ \E h \in Handlers : \E cmd \in MuteCommands : HandlerReceive(h, cmd)
  \/ \E h \in Handlers : RemoveChat(h)
  \/ \E h \in Handlers : StoreGet(h)
  \/ \E h \in Handlers : StorePut(h)
  \/ \E h \in Handlers : HandlerReturn(h)
  \/ FanoutNext(SweepWebhooks)

MuteSpec == InitStored(SweepStores) /\ [][MuteNext]_vars

\* overlapping handlers, each working on a chat of its own
PairNext ==
  \E h \in Handlers :
    \/ \E cmd \in PairCommands(h) : HandlerReceive(h, cmd)
    \/ AddChat(h)
    \/ RemoveChat(h)
    \/ StoreGet(h)
    \/ StorePut(h)
    \/ HandlerReturn(h)
    \/ HandlerParseError(h)

PairSpec == Init /\ [][PairNext]_vars

\* the message list of the store: AddMessage as the fan-out calls it and
\* DeleteAllMessages, the calls made one after the other, while time passes
MessagesNext ==
  \/ FanoutNext(SweepWebhooks)
  \/ (fan.pc # "put" /\ DeleteAllMessages)
  \/ ClockTick

MessagesSpec == InitStored(SweepStores) /\ [][MessagesNext]_vars

\* the fan-out, the clock and the scheduler with its ticks far apart: the job
\* of a tick has returned before the next tick fires, so one goroutine runs
\* every sweep
SingleSweepNext ==
  \/ FanoutNext(SweepWebhooks)
  \/ \E ok \in BOOLEAN : SweepGet(1, ok)
  \/ \E ok \in BOOLEAN : SweepPut(1, ok)
  \/ \E ok \in BOOLEAN : SweepDelete(1, ok)
  \/ SweepReturn(1)
  \/ ClockTick

SingleSweepSpec == InitStored(SweepStores) /\ [][SingleSweepNext]_vars

\* a /start or /mute handler beside the fan-out, chat 1 subscribed
RenameNext ==
  \/ \E cmd \in RenameCommands : HandlerReceive(1, cmd)
  \/ AddChat(1)
  \/ StoreGet(1)
  \/ StorePut(1)
  \/ HandlerReturn(1)
  \/ FanoutNext(RepeatWebhooks)

RenameSpec == InitStored(SweepStores) /\ [][RenameNext]_vars

\* a /mute or /mute_del handler beside the fan-out, chat 1 subscribed; no
\* List of the fan-out fails
BatchNext ==
  \/ \E cmd \in BatchCommands : HandlerReceive(1, cmd)
  \/ StoreGet(1)
  \/ StorePut(1)
  \/ HandlerReturn(1)
  \/ \E w \in RepeatWebhooks : FanoutReceive(w)
  \/ FanoutAlert(TRUE)
  \/ \E ok \in BOOLEAN : FanoutSend(ok)
  \/ \E ok \in BOOLEAN : FanoutAddMessageGet(ok)
  \/ \E ok \in BOOLEAN : FanoutAddMessagePut(ok)

BatchSpec == InitStored(SweepStores) /\ [][BatchNext]_vars

\* /start handlers beside the fan-out, no chat subscribed at first
StartNext ==
  \/ \E cmd \in StartCommands : HandlerReceive(1, cmd)
  \/ AddChat(1)
  \/ HandlerReturn(1)
  \/ FanoutNext(Webhooks)

StartSpec == Init /\ [][StartNext]_vars

\* a command handler, the fan-out, the scheduler with its ticks far apart and
\* the clock, chat 1 subscribed
FrameNext ==
  \/ HandlerNext({1}, FrameCommands)
  \/ SingleSweepNext

FrameSpec == InitStored(SweepStores) /\ [][FrameNext]_vars

\* the command handlers, overlapping, with tags inside and outside the universes
OutsideNext == HandlerNext(Handlers, OutsideCommands)

OutsideSpec == Init /\ [][OutsideNext]_vars

\* the store calls of a command handler and of the fan-out made one after
\* the other: none starts between the Get and the Put of another
ListNext ==
  \/ (fan.pc # "put" /\ \E cmd \in ListCommands : HandlerReceive(1, cmd))
  \/ (fan.pc # "put" /\ AddChat(1))
  \/ (fan.pc # "put" /\ RemoveChat(1))
  \/ (fan.pc # "put" /\ StoreGet(1))
  \/ StorePut(1)
  \/ HandlerReturn(1)
  \/ (handlers[1].pc # "put" /\ FanoutNext(SweepWebhooks))

ListSpec == Init /\ [][ListNext]_vars

\* the command handlers, one command at a time, messages of any sender
SenderNext == HandlerNext({1}, SenderCommands)

SenderSpec == Init /\ [][SenderNext]_vars

\* fan-out, scheduler and a command handler with no transport or store
\* failure, the context cancelled at some time; every goroutine and the clock
\* scheduled fairly
ShutdownCommands == {cmd \in RaceCommands : cmd.kind \in {"start", "stop"}}

\* the steps of a handler once its command has arrived
ShutdownHandlerStep == AddChat(1) \/ RemoveChat(1) \/ HandlerReturn(1)

ShutdownNext ==
  \/ LiveNext
  \/ \E cmd \in ShutdownCommands : HandlerReceive(1, cmd)
  \/ ShutdownHandlerStep
  \/ Cancel
  \/ FanoutDone

ShutdownSpec ==
  /\ InitStored(SweepStores)
  /\ [][ShutdownNext]_vars
  /\ WF_vars(FanoutAlert(TRUE))
  /\ WF_vars(FanoutSend(TRUE))
  /\ WF_vars(FanoutAddMessageGet(TRUE))
  /\ WF_vars(FanoutAddMessagePut(TRUE))
  /\ WF_vars(FanoutDone)
  /\ WF_vars(\E s \in Sweepers : SweepGet(s, TRUE))
  /\ WF_vars(\E s \in Sweepers : SweepPut(s, TRUE))
  /\ WF_vars(\E s \in Sweepers : \E ok \in BOOLEAN : SweepDelete(s, ok))
  /\ WF_vars(\E s \in Sweepers : SweepReturn(s))
  /\ WF_vars(ShutdownHandlerStep)
  /\ WF_vars(ClockTick)

\* a pure function applied to each of its inputs
InitPure(inputs) ==
  /\ chats = <<>>
  /\ messages = [exists |-> FALSE, list |-> <<>>]
  /\ handlers = [h \in Handlers |-> Idle]
  /\ fan = FanIdle
  /\ sweeps = [s \in Sweepers |-> SweepIdle]
  /\ now = 0
  /\ sentAt = <<>>
  /\ sendLog = <<>>
  /\ deleted = {}
  /\ nbatch = 0
  /\ crashed = FALSE
  /\ replies = {}
  /\ run = Running
  /\ eval \in inputs

DifferenceSpec == InitPure(DifferenceInputs) /\ [][ApplyArrayDifference]_vars

TruncateSpec == InitPure(TruncateInputs) /\ [][ApplyTruncateMessage]_vars

(***************************************************************************)
(* Properties.  A handler at pc = "ret" holds the ChatStore call that has  *)
(* just returned: the record it read (before), the record it wrote         *)
(* (after) and how it ended (res).                                         *)
(***************************************************************************)
Returned(h, ops) ==
  /\ handlers[h].pc = "ret"
  /\ Head(handlers[h].todo).op \in ops

TheCall(h) == Head(handlers[h].todo)

\* the muted and the alert list of the dimension a call works on
MutedOf(call, info) ==
  IF call.op \in {"MuteEnvironments", "UnmuteEnvironment"}
  THEN info.MutedEnvironments ELSE info.MutedProjects

AlertOf(call, info) ==
  IF call.op \in {"MuteEnvironments", "UnmuteEnvironment"}
  THEN info.AlertEnvironments ELSE info.AlertProjects

UniverseOf(call) ==
  IF call.op \in {"MuteEnvironments", "UnmuteEnvironment"}
  THEN environmentsAndOther ELSE projectsAndOther

\* C1: every stored chat record has alert_environments = universe minus
\* muted_environments and alert_projects = universe minus muted_projects, as
\* sets, after any sequence of add_chat, mute and unmute calls.
C1_AlertIsUniverseMinusMuted ==
  \A c \in DOMAIN chats :
    /\ Range(chats[c].AlertEnvironments)
         = Range(environmentsAndOther) \ Range(chats[c].MutedEnvironments)
    /\ Range(chats[c].AlertProjects)
         = Range(projectsAndOther) \ Range(chats[c].MutedProjects)

C1_Witness ==
  /\ Returned(1, {"UnmuteEnvironment"})
  /\ handlers[1].res = "ok"
  /\ \E c \in DOMAIN chats :
       /\ chats[c].MutedEnvironments # <<>>
       /\ chats[c].MutedProjects # <<>>
       /\ chats[c].AlertEnvironments # <<>>

\* C2: when two mute calls on the same chat are in flight together and both
\* have returned success, the stored record holds the tags of both.
C2_NoLostUpdate ==
  \A h1, h2 \in Handlers :
    ( /\ h1 # h2
      /\ Returned(h1, {"MuteEnvironments", "MuteProjects"})
      /\ Returned(h2, {"MuteEnvironments", "MuteProjects"})
      /\ handlers[h1].res = "ok"
      /\ handlers[h2].res = "ok"
      /\ handlers[h1].chat.ID = handlers[h2].chat.ID
      /\ kvHas(handlers[h1].chat.ID) )
    => /\ Range(TheCall(h1).arg) \subseteq Range(MutedOf(TheCall(h1), chats[handlers[h1].chat.ID]))
       /\ Range(TheCall(h2).arg) \subseteq Range(MutedOf(TheCall(h2), chats[handlers[h2].chat.ID]))

\* C3: unmute_environment / unmute_project of a tag that is not in the muted
\* list of an existing record succeeds and leaves the muted list and the alert
\* list as they were.
C3_UnmuteAbsentIsNoOp ==
  \A h \in Handlers :
    ( /\ Returned(h, {"UnmuteEnvironment", "UnmuteProject"})
      /\ handlers[h].res # "err"
      /\ ~contains(MutedOf(TheCall(h), handlers[h].before), TheCall(h).arg[1]) )
    => /\ handlers[h].res = "ok"
       /\ MutedOf(TheCall(h), handlers[h].after) = MutedOf(TheCall(h), handlers[h].before)
       /\ AlertOf(TheCall(h), handlers[h].after) = AlertOf(TheCall(h), handlers[h].before)

\* C9: unmute_environment / unmute_project of a tag that is in the muted list
\* succeeds, removes that tag and no other from the muted list, and the alert
\* list holds the tag afterwards when the universe does.
C9_UnmuteRemovesExactlyTheTag ==
  \A h \in Handlers :
    ( /\ Returned(h, {"UnmuteEnvironment", "UnmuteProject"})
      /\ handlers[h].res # "err"
      /\ contains(MutedOf(TheCall(h), handlers[h].before), TheCall(h).arg[1]) )
    => LET call == TheCall(h)
           tag == call.arg[1]
           old == MutedOf(call, handlers[h].before)
           new == MutedOf(call, handlers[h].after) IN
       /\ handlers[h].res = "ok"
       /\ Range(new) = Range(old) \ {tag}
       /\ Len(new) = Len(old) - 1
       /\ contains(UniverseOf(call), tag) => contains(AlertOf(call, handlers[h].after), tag)

C9_Witness ==
  /\ Returned(1, {"UnmuteEnvironment"})
  /\ handlers[1].res = "ok"
  /\ Len(handlers[1].before.MutedEnvironments) = 2
  /\ handlers[1].before.MutedEnvironments[2] = TheCall(1).arg[1]
  /\ handlers[1].after.MutedEnvironments = <<handlers[1].before.MutedEnvironments[1]>>

\* C10: mute_environments / mute_projects with tags that are all muted already
\* leaves the members of the muted list and of the alert list as they were.
C10_MuteIsIdempotent ==
  \A h \in Handlers :
    ( /\ Returned(h, {"MuteEnvironments", "MuteProjects"})
      /\ handlers[h].res = "ok"
      /\ Range(TheCall(h).arg) \subseteq Range(MutedOf(TheCall(h), handlers[h].before)) )
    => /\ Range(MutedOf(TheCall(h), handlers[h].after))
            = Range(MutedOf(TheCall(h), handlers[h].before))
       /\ Range(AlertOf(TheCall(h), handlers[h].after))
            = Range(AlertOf(TheCall(h), handlers[h].before))

C10_Witness ==
  /\ Returned(1, {"MuteEnvironments"})
  /\ handlers[1].res = "ok"
  /\ TheCall(1).arg = <<"env1">>
  /\ Range(handlers[1].before.MutedEnvironments) = {"env1", "env2"}
  /\ Range(handlers[1].after.MutedEnvironments) = {"env1", "env2"}

\* what a chat has accumulated in receiversAndMessages
Accumulated(ram, key) == IF key \in DOMAIN ram THEN ram[key] ELSE <<>>

\* C4: when the fan-out handles one alert, the alert joins the message of a
\* subscribed chat if and only if the chat's alert_environments holds the
\* alert's resolved environment and its alert_projects holds the alert's
\* resolved project; the text sent to a chat is what the chat has accumulated.
C4_EligibleIffBothDimensions ==
  [][ /\ (fan.pc = "alert" /\ fan' # fan /\ ~fan'.err) =>
           \A c \in DOMAIN chats :
             LET alert == fan.batch[fan.i]
                 env == IF alert.environment \in Range(environments)
                        THEN alert.environment ELSE "other"
                 pr == IF alert.project \in Range(projects)
                       THEN alert.project ELSE "other"
                 old == Accumulated(fan.ram, chats[c].Chat)
                 new == Accumulated(fan'.ram, chats[c].Chat) IN
             IF env \in Range(chats[c].AlertEnvironments)
                  /\ pr \in Range(chats[c].AlertProjects)
             THEN new = <<alert>> \o old
             ELSE new = old
      /\ (fan.pc = "send" /\ fan'.pc = "add") =>
           \E k \in DOMAIN fan.ram :
             /\ k \notin DOMAIN fan'.ram
             /\ sendLog'[Len(sendLog')].chat = k.ID
             /\ sendLog'[Len(sendLog')].alerts = fan.ram[k]
    ]_vars

\* chat 1 takes the alert, chat 2 matches it in one dimension only and is left out
C4_Witness ==
  /\ fan.pc = "add"
  /\ DOMAIN chats = {1, 2}
  /\ sendLog # <<>>
  /\ sendLog[1].chat = 1
  /\ sendLog[1].alerts = fan.batch
  /\ Len(fan.batch) = 1
  /\ DOMAIN fan.ram = {}
  /\ contains(chats[2].AlertEnvironments, Resolve(environments, fan.batch[1].environment))
  /\ ~contains(chats[2].AlertProjects, Resolve(projects, fan.batch[1].project))

\* C5: a failed Send to one chat does not stop the fan-out: the process lives
\* on to send to the other chats of the batch and to take later webhooks.
C5_FailedSendDoesNotAbort ==
  (\E i \in DOMAIN sendLog : ~sendLog[i].ok) => ~crashed

\* C6: AddMessage is called exactly for the sends that succeeded, with the
\* message Send returned, and only such messages are in the stored list.
C6_AddMessageIffSent ==
  /\ fan.pc = "add" =>
       /\ sendLog[Len(sendLog)].ok
       /\ fan.msg.ID = sendLog[Len(sendLog)].id
  /\ \A i \in DOMAIN messages.list : messages.list[i].ID \in DOMAIN sentAt

InSeq(seq, x) == \E i \in DOMAIN seq : seq[i] = x

\* C7: GetMessagesForPeriodInMinutes splits the list it read: it returns the
\* messages whose age is at least deletePeriod minutes and stores the younger
\* ones; every message it read is in exactly one of the two.
C7_SweepPartitions ==
  [][ \A s \in Sweepers :
        (sweeps[s].pc = "put" /\ sweeps'[s].pc = "delete") =>
          LET read == sweeps[s].read
              ret == sweeps'[s].ret
              kept == messages'.list IN
          /\ messages'.exists
          /\ Range(ret) \cup Range(kept) \subseteq Range(read)
          /\ Len(ret) + Len(kept) = Len(read)
          /\ \A i \in DOMAIN read :
               IF now - sentAt[read[i].ID] >= deletePeriod
               THEN InSeq(ret, read[i]) /\ ~InSeq(kept, read[i])
               ELSE InSeq(kept, read[i]) /\ ~InSeq(ret, read[i])
    ]_vars

\* a sweep has just returned one message and kept another
C7_Witness ==
  \E s \in Sweepers :
    /\ sweeps[s].pc = "delete"
    /\ sweeps[s].todo = sweeps[s].ret
    /\ Len(sweeps[s].ret) = 1
    /\ Len(sweeps[s].read) = 2
    /\ Len(messages.list) = 1
    /\ now - sentAt[sweeps[s].ret[1].ID] = deletePeriod

Stored(id) == \E i \in DOMAIN messages.list : messages.list[i].ID = id

\* C8: every message AddMessage has stored is in the end returned by a sweep
\* and its deletion requested.
C8_StoredIsEventuallySwept ==
  \A id \in 1..(MaxBatches * NumChats) : Stored(id) ~> (id \in deleted)

NoDuplicates(s) == Cardinality(Range(s)) = Len(s)

\* C11: in every stored chat record muted_environments and muted_projects hold
\* no tag twice, whatever add_chat, mute and unmute calls (also mutes whose
\* list repeats a tag) came before.
C11_MutedHasNoDuplicates ==
  \A c \in DOMAIN chats :
    /\ NoDuplicates(chats[c].MutedEnvironments)
    /\ NoDuplicates(chats[c].MutedProjects)

\* a mute that names twice a tag which is muted already
C11_Witness ==
  /\ Returned(1, {"MuteEnvironments"})
  /\ handlers[1].res = "ok"
  /\ TheCall(1).arg = <<"env1", "env1">>
  /\ contains(handlers[1].before.MutedEnvironments, "env1")
  /\ Len(handlers[1].before.MutedEnvironments) = 2
  /\ Len(chats[handlers[1].chat.ID].MutedEnvironments) = 2

\* C12: after add_chat, get on the same chat id yields a record with empty
\* muted lists and with the alert lists equal to the universes passed in.
C12_AddChatThenGet ==
  \A h \in Handlers :
    (Returned(h, {"AddChat"}) /\ handlers[h].res = "ok") =>
      LET got == GetChatInfo(handlers[h].chat) IN
      /\ ~got.err
      /\ got.info.Chat = handlers[h].chat
      /\ got.info.MutedEnvironments = <<>>
      /\ got.info.MutedProjects = <<>>
      /\ got.info.AlertEnvironments = environmentsAndOther
      /\ got.info.AlertProjects = projectsAndOther

\* add_chat of a chat that had no record
C12_Witness ==
  /\ Returned(1, {"AddChat"})
  /\ handlers[1].res = "ok"
  /\ handlers[1].before = NoInfo
  /\ ~GetChatInfo(handlers[1].chat).err

\* C13: add_chat on a chat that has a record overwrites it: whatever the old
\* record muted, the new one mutes nothing and alerts on the whole universes;
\* add_chat on the record an add_chat wrote leaves the store as it was.
C13_AddChatOverwrites ==
  \A h \in Handlers :
    (Returned(h, {"AddChat"}) /\ handlers[h].res = "ok" /\ handlers[h].before # NoInfo) =>
      LET c == handlers[h].chat.ID
          old == handlers[h].before
          fresh == [Chat |-> handlers[h].chat,
                    AlertEnvironments |-> environmentsAndOther,
                    AlertProjects |-> projectsAndOther,
                    MutedEnvironments |-> <<>>, MutedProjects |-> <<>>] IN
      /\ kvHas(c)
      /\ chats[c] = fresh
      /\ handlers[h].after = fresh
      /\ (old = fresh) => chats = [k \in DOMAIN chats |-> IF k = c THEN old ELSE chats[k]]

\* add_chat over a record that muted an environment and a project
C13_Witness ==
  /\ Returned(1, {"AddChat"})
  /\ handlers[1].res = "ok"
  /\ handlers[1].before.MutedEnvironments # <<>>
  /\ handlers[1].before.MutedProjects # <<>>
  /\ chats[handlers[1].chat.ID].MutedEnvironments = <<>>

\* C16: an alert whose environment label is missing or not configured counts
\* as environment "other", and likewise its project: it joins the message of
\* a chat exactly when the chat alerts on "other" in that dimension (and on
\* the alert's value in the other one), so a chat that muted "other" in the
\* dimension does not get it.
C16_OutsideUniverseIsOther ==
  [][ (fan.pc = "alert" /\ fan' # fan /\ ~fan'.err) =>
        \A c \in DOMAIN chats :
          LET alert == fan.batch[fan.i]
              envOut == alert.environment \notin Range(environments)
              prOut == alert.project \notin Range(projects)
              envTaken == IF envOut THEN "other" \in Range(chats[c].AlertEnvironments)
                          ELSE alert.environment \in Range(chats[c].AlertEnvironments)
              prTaken == IF prOut THEN "other" \in Range(chats[c].AlertProjects)
                         ELSE alert.project \in Range(chats[c].AlertProjects)
              old == Accumulated(fan.ram, chats[c].Chat)
              new == Accumulated(fan'.ram, chats[c].Chat) IN
          (envOut \/ prOut) =>
            /\ (envTaken /\ prTaken) => new = <<alert>> \o old
            /\ (envOut /\ "other" \in Range(chats[c].MutedEnvironments)) => new = old
            /\ (prOut /\ "other" \in Range(chats[c].MutedProjects)) => new = old
    ]_vars

\* an alert of an unconfigured environment: chat 1, which muted "other", is
\* left out and chat 2 takes it
C16_Witness ==
  /\ fan.pc = "add"
  /\ DOMAIN chats = {1, 2}
  /\ Len(fan.batch) = 1
  /\ fan.batch[1].environment = "envX"
  /\ "other" \in Range(chats[1].MutedEnvironments)
  /\ sendLog # <<>>
  /\ sendLog[1].chat = 2
  /\ sendLog[1].alerts = fan.batch
  /\ DOMAIN fan.ram = {}

\* C17: while it handles one webhook the fan-out reads the chat list from the
\* store once, however many alerts the webhook holds.
C17_ListOncePerBatch == fan.lists <= 1

\* sub is seq with some elements left out, the others in seq's order
IsSubsequence(sub, seq) ==
  \E f \in [1..Len(sub) -> 1..Len(seq)] :
    /\ \A i \in 1..Len(sub) : seq[f[i]] = sub[i]
    /\ \A i, j \in 1..Len(sub) : i < j => f[i] < f[j]

\* C18: the alerts of the message built for a chat are in the order they have
\* in the webhook, an alert that occurs twice is kept twice.
C18_AlertsKeepBatchOrder ==
  fan.pc = "add" => IsSubsequence(sendLog[Len(sendLog)].alerts, fan.batch)

\* the tag of an alert in the dimension a mute call works on
TagOf(call, alert) ==
  IF call.op = "MuteEnvironments" THEN Resolve(environments, alert.environment)
  ELSE Resolve(projects, alert.project)

\* C14: once a mute of chat c has returned success, no webhook the fan-out
\* receives afterwards delivers to c an alert with a tag the call muted (no
\* unmute and no add_chat of c follows), also when another mutation of c was
\* in flight together with the mute.
C14_MutedTagIsNotDelivered ==
  \A h \in Handlers :
    (Returned(h, {"MuteEnvironments", "MuteProjects"}) /\ handlers[h].res = "ok") =>
      \A i \in DOMAIN sendLog :
        (sendLog[i].batch > handlers[h].at /\ sendLog[i].chat = handlers[h].chat.ID) =>
          \A j \in DOMAIN sendLog[i].alerts :
            TagOf(TheCall(h), sendLog[i].alerts[j]) \notin Range(TheCall(h).arg)

\* C15: after remove_chat of chat c has returned success, get of c fails and
\* list does not hold c (no add_chat of c follows), also when a mute of c was
\* in flight together with the removal: a mute creates no record.
C15_RemovedStaysRemoved ==
  \A h \in Handlers :
    (Returned(h, {"RemoveChat"}) /\ handlers[h].res = "ok") =>
      /\ GetChatInfo(handlers[h].chat).err
      /\ \A i \in DOMAIN List : List[i].Chat.ID # handlers[h].chat.ID

\* C19: after the context is cancelled the three tasks of Run stop in the
\* end - sendWebhook returns, the scheduler runs no more job, the poller
\* starts no more handler - and so Run returns.
C19_CancelStopsAllTasks ==
  (run.ctx = "done") ~>
    (run.sendWebhook = "returned" /\ run.cron # "running" /\ run.telebot # "running")

\* C20: a handler working on the message of a sender who is no admin changes
\* no chat record and sends no reply, whether or not the message is a service
\* message.
C20_NonAdminIsDropped ==
  [][ \A h \in Handlers :
        (handlers[h].pc # "idle" /\ ~handlers[h].admin /\ handlers'[h] # handlers[h]) =>
          (chats' = chats /\ replies' = replies)
    ]_vars

\* C21: get, mute_environments, mute_projects, unmute_environment,
\* unmute_project, muted_environments and muted_projects of a chat id that has
\* no record return an error and leave every chat record and the message
\* list as they were.
C21_AbsentChatFails ==
  [][ /\ \A c \in ChatValues(Chats) :
           ~kvHas(c.ID) =>
             GetChatInfo(c).err /\ MutedEnvironments(c).err /\ MutedProjects(c).err
      /\ \A h \in Handlers :
           ( /\ handlers[h].pc = "call"
             /\ ReadsRecord(TheCall(h).op)
             /\ ~kvHas(handlers[h].chat.ID)
             /\ handlers'[h] # handlers[h] ) =>
             /\ handlers'[h].pc = "ret"
             /\ handlers'[h].res = "err"
             /\ chats' = chats
             /\ messages' = messages
    ]_vars

\* an unmute of a chat that was never subscribed has returned its error
C21_Witness ==
  /\ Returned(1, {"UnmuteEnvironment"})
  /\ handlers[1].res = "err"
  /\ chats = <<>>
  /\ GetChatInfo(handlers[1].chat).err

\* C22: calls on different chats do not interfere: a step of a call on chat A
\* leaves the record of every other chat as it is, and the record a call on A
\* rewrites is the one it read, whatever calls on B ran in between; so the
\* record of A is what A's calls alone make of it.
C22_OtherChatsUntouched ==
  [][ \A h \in Handlers :
        (handlers'[h] # handlers[h]) =>
          /\ \A c \in (DOMAIN chats \cup DOMAIN chats') \ {handlers'[h].chat.ID, handlers[h].chat.ID} :
               c \in DOMAIN chats /\ c \in DOMAIN chats' /\ chats'[c] = chats[c]
          /\ (handlers[h].pc = "put") =>
               /\ kvHas(handlers[h].chat.ID)
               /\ chats[handlers[h].chat.ID] = handlers[h].before
    ]_vars

\* chat 2's mute has returned while chat 1's mute was between its read and
\* its write; chat 1's record is still the one that call read
C22_Witness ==
  /\ handlers[1].pc = "put"
  /\ Returned(2, {"MuteEnvironments"})
  /\ handlers[2].res = "ok"
  /\ handlers[2].after # handlers[2].before
  /\ chats[1] = handlers[1].before
  /\ chats[2] = handlers[2].after

\* C23: a sweep requests the transport deletion of every message
\* GetMessagesForPeriodInMinutes returned: each round of its loop requests one
\* and goes on to the next whether or not the transport failed, and the tick
\* after the sweep can run.
C23_SweepDeletesEveryReturned ==
  [][ \A s \in Sweepers :
        /\ (sweeps[s].pc = "delete" /\ sweeps[s].todo # <<>> /\ sweeps'[s] # sweeps[s]) =>
             /\ Head(sweeps[s].todo).ID \in deleted'
             /\ sweeps'[s].pc = "delete"
             /\ sweeps'[s].todo = Tail(sweeps[s].todo)
        /\ (sweeps[s].pc = "delete" /\ sweeps[s].todo = <<>>) =>
             \A i \in DOMAIN sweeps[s].ret : sweeps[s].ret[i].ID \in deleted
        /\ (sweeps[s].pc = "idle" /\ ~crashed) => ENABLED SweepGet(s, TRUE)
    ]_vars

\* a sweep has gone through the two messages it was handed
C23_Witness ==
  \E s \in Sweepers :
    /\ sweeps[s].pc = "delete"
    /\ sweeps[s].todo = <<>>
    /\ Len(sweeps[s].ret) = 2
    /\ \A i \in DOMAIN sweeps[s].ret : sweeps[s].ret[i].ID \in deleted

\* C28: the scheduler is idle between ticks, a tick starts one sweep, the
\* sweep returns to idle, and no two sweeps run at the same time.
C28_OneSweepAtATime ==
  Cardinality({s \in Sweepers : sweeps[s].pc # "idle"}) <= 1

\* C29: a sweep whose store read or store rewrite fails requests no transport
\* deletion and leaves the stored message list as it was, and the next tick
\* can run its sweep.
C29_SweepStoreFailureContained ==
  [][ \A s \in Sweepers :
        /\ (sweeps'[s].err /\ sweeps'[s] # sweeps[s]) =>
             /\ messages' = messages
             /\ deleted' = deleted
        /\ sweeps[s].err =>
             /\ sweeps[s].pc = "idle"
             /\ sweeps[s].todo = <<>>
             /\ ~crashed => ENABLED SweepGet(s, TRUE)
    ]_vars

\* a sweep has failed on the store while a message old enough to go was
\* stored: the message is still there and no deletion was requested
C29_Witness ==
  \E s \in Sweepers :
    /\ sweeps[s].err
    /\ deleted = {}
    /\ \E i \in DOMAIN messages.list : now - sentAt[messages.list[i].ID] >= deletePeriod

\* C24: the fan-out carries nothing from one webhook to the next: a message
\* built for a chat holds alerts of the webhook in hand only, the
\* accumulation starts empty, and a chat gets a message only when an alert of
\* the webhook in hand is eligible for it.
C24_NoStateAcrossBatches ==
  /\ (fan.pc = "alert" /\ fan.i = 1) => (fan.ram = <<>> /\ sendLog = <<>>)
  /\ (fan.pc # "recv") =>
       /\ \A k \in DOMAIN fan.ram :
            /\ fan.ram[k] # <<>>
            /\ Range(fan.ram[k]) \subseteq Range(fan.batch)
       /\ \A i \in DOMAIN sendLog :
            /\ sendLog[i].batch = nbatch
            /\ sendLog[i].alerts # <<>>
            /\ Range(sendLog[i].alerts) \subseteq Range(fan.batch)
            /\ \E j \in DOMAIN fan.batch : Eligible(chats[sendLog[i].chat], fan.batch[j])

\* the second webhook: of two subscribed chats only one gets a message
C24_Witness ==
  /\ nbatch = 2
  /\ fan.pc = "add"
  /\ DOMAIN chats = {1, 2}
  /\ Len(sendLog) = 1
  /\ DOMAIN fan.ram = {}
  /\ \A j \in DOMAIN fan.batch : ~Eligible(chats[3 - sendLog[1].chat], fan.batch[j])

\* C25: AddMessage stores the list that was stored followed by the message;
\* GetAllMessages of a store with no message record is the empty list;
\* after DeleteAllMessages the list is empty.
C25_AddMessageAppends ==
  [][ /\ (fan.pc = "put" /\ messages' # messages) =>
           /\ messages'.exists
           /\ (GetAllMessages)' = Append(GetAllMessages, fan.msg)
      /\ (fan' = fan /\ messages' # messages) => (GetAllMessages)' = <<>>
      /\ ~messages.exists => GetAllMessages = <<>>
    ]_vars

\* two messages added one after the other are both listed, in that order
C25_Witness ==
  /\ Len(GetAllMessages) = 2
  /\ GetAllMessages[1].ID = 1
  /\ GetAllMessages[2].ID = 2

\* C26: truncateMessage returns a text of at most 4095 bytes as it is; of a
\* longer text it returns at most 4095 bytes: the text up to the last "\n\n"
\* within its first 4080 bytes followed by the [SNIP] marker, or, when there
\* is no "\n\n" there, the too-long placeholder.
C26_TruncateAtLastBoundary ==
  (eval.fn = "truncateMessage" /\ eval.done) =>
    LET str == eval.args
        boundaries == {i \in str.breaks : i + 2 <= 4080} IN
    IF str.len <= 4095
    THEN eval.out.kind = "same" /\ eval.out.len = str.len
    ELSE /\ eval.out.len <= 4095
         /\ IF boundaries # {}
            THEN /\ eval.out.kind = "snip"
                 /\ \A i \in boundaries : i <= eval.out.cut
                 /\ eval.out.cut \in boundaries
            ELSE eval.out.kind = "too long"

\* C30: arrayDifference(universe, muted) holds exactly the elements of
\* universe that are not in muted: it shares none with muted, with muted it
\* covers universe, and it is empty when universe is.
C30_DifferenceIsSetDifference ==
  (eval.fn = "arrayDifference" /\ eval.done) =>
    LET universe == Range(eval.args[1])
        muted == Range(eval.args[2])
        diff == Range(eval.out) IN
    /\ diff = universe \ muted
    /\ diff \cap muted = {}
    /\ diff \cup (muted \cap universe) = universe
    /\ (eval.args[1] = <<>>) => (eval.out = <<>>)

\* a universe with a repeated tag, a muted list with a tag outside it
C30_Witness ==
  /\ eval.fn = "arrayDifference"
  /\ eval.done
  /\ eval.args = << <<"env1", "env2", "env1">>, <<"env2", "other">> >>
  /\ eval.out = <<"env1", "env1">>

\* C27: a /mute or /mute_del whose text matches no pattern makes the handler
\* send a failure reply and nothing else: no chat record and no message list
\* changes, and the handler is free for the next command.
C27_ParseErrorIsReported ==
  [][ \A h \in Handlers :
        /\ (handlers'[h].pc = "noparse" /\ handlers'[h] # handlers[h]) =>
             (chats' = chats /\ messages' = messages /\ replies' = replies)
        /\ (handlers[h].pc = "noparse" /\ handlers'[h] # handlers[h]) =>
             /\ replies' = replies \cup {[chat |-> handlers[h].chat.ID,
                                          admin |-> handlers[h].admin, failed |-> TRUE]}
             /\ chats' = chats
             /\ messages' = messages
             /\ handlers'[h] = Idle
    ]_vars

\* after the failure reply to a text that did not parse, a later /mute of the
\* same chat has been carried out
C27_Witness ==
  /\ [chat |-> 1, admin |-> TRUE, failed |-> TRUE] \in replies
  /\ [chat |-> 1, admin |-> TRUE, failed |-> FALSE] \notin replies
  /\ chats = <<>>
  /\ handlers[1].pc = "idle"

\* C31: a message is returned by at most one sweep: a message
\* GetMessagesForPeriodInMinutes returns was not returned by an earlier sweep
\* (its deletion was not requested before) and is not in the hands of another
\* sweep, also when an AddMessage of the fan-out read the list before the
\* earlier sweep and wrote it back afterwards.
C31_ReturnedByOneSweep ==
  [][ \A s \in Sweepers :
        (sweeps[s].pc = "put" /\ sweeps'[s].pc = "delete") =>
          \A i \in DOMAIN sweeps'[s].ret :
            /\ sweeps'[s].ret[i].ID \notin deleted
            /\ \A t \in Sweepers \ {s} : ~InSeq(sweeps[t].ret, sweeps'[s].ret[i])
    ]_vars

\* C32: for one webhook at most one message is sent to each chat id, also
\* when a command rewrites the chat's record (its Chat value or its mute
\* state) while the webhook is being handled.
C32_OneMessagePerChat ==
  \A i, j \in DOMAIN sendLog :
    (i # j /\ sendLog[i].batch = sendLog[j].batch /\ sendLog[i].ok /\ sendLog[j].ok)
      => sendLog[i].chat # sendLog[j].chat

Count(seq, x) == Cardinality({i \in DOMAIN seq : seq[i] = x})

\* the alerts of batch a record with these alert sets takes
TakenBy(batch, envs, prs) ==
  SelectSeq(batch, LAMBDA a : /\ Resolve(environments, a.environment) \in envs
                              /\ Resolve(projects, a.project) \in prs)

\* C33: the alerts of a message sent to a chat are the alerts of the webhook
\* that are eligible under one single state of the record (one alert set per
\* dimension): a mute or unmute that takes effect while the webhook is
\* handled does not make one part of it filtered by the old and another by
\* the new state.
C33_FilteredByOneState ==
  \A i \in DOMAIN sendLog :
    \E envs \in SUBSET Range(environmentsAndOther), prs \in SUBSET Range(projectsAndOther) :
      \A j \in DOMAIN fan.batch :
        Count(sendLog[i].alerts, fan.batch[j])
          = Count(TakenBy(fan.batch, envs, prs), fan.batch[j])

Unmuted(info) == info.MutedEnvironments = <<>> /\ info.MutedProjects = <<>>

C35_NoSuccessAfterFailure ==
  [][ \A h \in Handlers :
        ( /\ Returned(h, {"MuteEnvironments", "MuteProjects",
                          "UnmuteEnvironment", "UnmuteProject"})
          /\ handlers[h].res = "err"
          /\ handlers'[h] # handlers[h] ) =>
          /\ Reply(handlers[h], TRUE) \in replies'
          /\ Reply(handlers[h], FALSE) \notin replies' \ replies
    ]_vars

\* C36: a mutation of one dimension leaves the rest of the record as it was:
\* MuteEnvironments and UnmuteEnvironment keep MutedProjects, AlertProjects
\* and Chat, MuteProjects and UnmuteProject keep MutedEnvironments,
\* AlertEnvironments and Chat; the record stored is the one the call made.
C36_OtherDimensionUnchanged ==
  \A h \in Handlers :
    /\ (Returned(h, {"MuteEnvironments", "UnmuteEnvironment"}) /\ handlers[h].res = "ok") =>
         /\ handlers[h].after.MutedProjects = handlers[h].before.MutedProjects
         /\ handlers[h].after.AlertProjects = handlers[h].before.AlertProjects
         /\ handlers[h].after.Chat = handlers[h].before.Chat
         /\ chats[handlers[h].chat.ID] = handlers[h].after
    /\ (Returned(h, {"MuteProjects", "UnmuteProject"}) /\ handlers[h].res = "ok") =>
         /\ handlers[h].after.MutedEnvironments = handlers[h].before.MutedEnvironments
         /\ handlers[h].after.AlertEnvironments = handlers[h].before.AlertEnvironments
         /\ handlers[h].after.Chat = handlers[h].before.Chat
         /\ chats[handlers[h].chat.ID] = handlers[h].after

\* a mute of a project on a record that mutes an environment
C36_Witness ==
  /\ Returned(1, {"MuteProjects"})
  /\ handlers[1].res = "ok"
  /\ handlers[1].before.MutedProjects = <<>>
  /\ handlers[1].before.MutedEnvironments = <<"env1">>
  /\ chats[1].MutedProjects = <<"pr1">>
  /\ chats[1].MutedEnvironments = <<"env1">>
  /\ chats[1].AlertEnvironments = <<"env2", "other">>

\* C37: the fan-out and the sweep write no chat record - a step of either
\* leaves every record as it was - and no step of a command handler
\* (AddChat, RemoveChat, mute, unmute) changes the stored message list.
C37_RecordsAndMessagesApart ==
  [][ /\ (fan' # fan \/ sweeps' # sweeps) => chats' = chats
      /\ (handlers' # handlers) => messages' = messages
    ]_vars

\* a mute has returned while a message is stored and a sweep has had another
\* deleted: the record is what the mute wrote, the list what the fan-out and
\* the sweep made of it
C37_Witness ==
  /\ Returned(1, {"MuteEnvironments"})
  /\ handlers[1].res = "ok"
  /\ chats[1] = handlers[1].after
  /\ deleted = {1}
  /\ Len(messages.list) = 1
  /\ messages.list[1].ID = 2

\* C38: a mute of tags that are not in the universe adds them to the muted
\* list and leaves the alert list as it was; in every state the alert list of
\* a dimension is within the universe passed to the mutations of that
\* dimension and shares no tag with the muted list.
C38_AlertWithinUniverseApartFromMuted ==
  /\ \A c \in DOMAIN chats :
       /\ Range(chats[c].AlertEnvironments) \subseteq Range(environmentsAndOther)
       /\ Range(chats[c].AlertEnvironments) \cap Range(chats[c].MutedEnvironments) = {}
       /\ Range(chats[c].AlertProjects) \subseteq Range(projectsAndOther)
       /\ Range(chats[c].AlertProjects) \cap Range(chats[c].MutedProjects) = {}
  /\ \A h \in Handlers :
       ( /\ Returned(h, {"MuteEnvironments", "MuteProjects"})
         /\ handlers[h].res = "ok"
         /\ Range(TheCall(h).arg) \cap Range(UniverseOf(TheCall(h))) = {} ) =>
         /\ Range(MutedOf(TheCall(h), handlers[h].after))
              = Range(MutedOf(TheCall(h), handlers[h].before)) \cup Range(TheCall(h).arg)
         /\ AlertOf(TheCall(h), handlers[h].after) = AlertOf(TheCall(h), handlers[h].before)

\* "envX" has been muted on a record that muted env1
C38_Witness ==
  /\ Returned(1, {"MuteEnvironments"})
  /\ handlers[1].res = "ok"
  /\ TheCall(1).arg = <<"envX">>
  /\ handlers[1].before.MutedEnvironments = <<"env1">>
  /\ Range(chats[1].MutedEnvironments) = {"env1", "envX"}
  /\ chats[1].AlertEnvironments = <<"env2", "other">>

\* C39: with store calls made one after the other, List returns one record
\* for each chat id that was added and not removed since and nothing else:
\* AddChat adds the id to the ids listed, RemoveChat takes it away, no other
\* call changes them, and the record under telegram/messages is not listed.
C39_ListIsTheSubscribedChats ==
  [][ /\ LET list == List IN
         /\ Len(list) = Cardinality(DOMAIN chats)
         /\ \A c \in DOMAIN chats :
              Cardinality({i \in DOMAIN list : list[i] = chats[c] /\ list[i].Chat.ID = c}) = 1
      /\ \A h \in Handlers :
           (handlers[h].pc = "call" /\ handlers'[h].pc = "ret") =>
             DOMAIN chats'
               = CASE TheCall(h).op = "AddChat" -> DOMAIN chats \cup {handlers[h].chat.ID}
                   [] TheCall(h).op = "RemoveChat" -> DOMAIN chats \ {handlers[h].chat.ID}
                   [] OTHER -> DOMAIN chats
      /\ (\A h \in Handlers : ~(handlers[h].pc = "call" /\ handlers'[h].pc = "ret")) =>
           DOMAIN chats' = DOMAIN chats
    ]_vars

\* chat 1 has been added a second time while chat 2 is subscribed and a
\* message is stored: two records are listed
C39_Witness ==
  /\ Returned(1, {"AddChat"})
  /\ handlers[1].chat.ID = 1
  /\ handlers[1].before # NoInfo
  /\ DOMAIN chats = {1, 2}
  /\ messages.exists
  /\ messages.list # <<>>
  /\ List = <<chats[1], chats[2]>>

=============================================================================
